---- MODULE Spec2Model ----
(***************************************************************************)
(* Model of osa_control.py: AQ6315EController driving an optical spectrum  *)
(* analyzer over a VISA link (setup_osa, run_scan_loop, save_trace) and    *)
(* the __main__ run configure -> sweep -> persist.                         *)
(*                                                                         *)
(* Wavelengths are Python numbers.  The loop of run_scan_loop adds and     *)
(* compares them, so they are modelled with the arithmetic Python gives    *)
(* them: a number is a fixed-point hexadecimal numeral (IntDigits digits   *)
(* before the point, FracDigits after it, most significant first), and an  *)
(* addition is the exact sum rounded to a binary64 significand of MantBits *)
(* bits, ties to even.  Every input of the model and every sum it forms is *)
(* either 0 or at least 2^-4, so each binary64 value involved is exactly   *)
(* such a numeral; on Python ints (below 2^53) the rounding changes        *)
(* nothing, as Python's exact int arithmetic requires.                     *)
(***************************************************************************)
EXTENDS Integers, Sequences, FiniteSets, TLC

----------------------------------------------------------------------------
(* Python numbers *)

IntDigits == 5

FracDigits == 14

MantBits == 53

NumLen == IntDigits + FracDigits

RECURSIVE Digits(_, _)
Digits(n, k) == IF k = 0 THEN <<>> ELSE Append(Digits(n \div 16, k - 1), n % 16)

\* The number ip + 0.frac (frac: FracDigits hexadecimal digits).
Num(ip, frac) == Digits(ip, IntDigits) \o frac

NoFrac == [i \in 1..FracDigits |-> 0]

Whole(ip) == Num(ip, NoFrac)

RECURSIVE Pow2(_)
Pow2(k) == IF k = 0 THEN 1 ELSE 2 * Pow2(k - 1)

(* The operators below name an operand's value once, as v \in {operand},     *)
(* before using it digit by digit.                                          *)

\* Digits 1..i of a + b + c (c the carry into digit i), put before acc.
RECURSIVE AddDigits(_, _, _, _, _)
AddDigits(a, b, i, c, acc) ==
    IF i = 0 THEN acc
    ELSE CHOOSE r \in {AddDigits(a, b, i - 1, s \div 16, <<s % 16>> \o acc) :
                          s \in {a[i] + b[i] + c}} : TRUE

\* a0 + b0 in exact arithmetic.
ExactAdd(a0, b0) ==
    CHOOSE r \in {AddDigits(a, b, Len(a), 0, <<>>) : a \in {a0}, b \in {b0}} : TRUE

\* a0 < b0
Less(a0, b0) ==
    \E a \in {a0}, b \in {b0} :
        \E i \in 1..Len(a) : a[i] < b[i] /\ \A j \in 1..(i - 1) : a[j] = b[j]

Leq(a, b) == ~Less(b, a)

\* Bit j of x, bit 0 the least significant.
Bit(x, j) == (x[Len(x) - (j \div 4)] \div Pow2(j % 4)) % 2

\* The index of the first nonzero digit of x from digit i on, 0 if none.
RECURSIVE Lead(_, _)
Lead(x, i) == IF i > Len(x) THEN 0 ELSE IF x[i] # 0 THEN i ELSE Lead(x, i + 1)

\* The position of the leading 1 bit of x, -1 for zero.
TopBit(x) ==
    CHOOSE t \in { IF lead = 0 THEN 0 - 1
                   ELSE 4 * (Len(x) - lead)
                        + (IF x[lead] >= 8 THEN 3 ELSE IF x[lead] >= 4 THEN 2
                           ELSE IF x[lead] >= 2 THEN 1 ELSE 0) :
                   lead \in {Lead(x, 1)} } : TRUE

\* x with the bits below bit cut cleared.
ClearBelow(x, cut) ==
    <<>> \o
    [i \in 1..Len(x) |->
        IF 4 * (Len(x) - i) >= cut THEN x[i]
        ELSE IF 4 * (Len(x) - i) + 4 <= cut THEN 0
        ELSE x[i] - (x[i] % Pow2(cut - 4 * (Len(x) - i)))]

\* 2^j as a numeral of the length of x.
OneAt(x, j) ==
    [i \in 1..(Len(x) - 1 - (j \div 4)) |-> 0] \o <<Pow2(j % 4)>> \o [i \in 1..(j \div 4) |-> 0]

\* x (more than MantBits bits long, cut > 0 of them too many) rounded at bit
\* cut, ties to even.
RoundAt(x, cut) ==
    IF Bit(x, cut - 1) = 1 /\ ((\E j \in 0..(cut - 2) : Bit(x, j) = 1) \/ Bit(x, cut) = 1)
    THEN ExactAdd(ClearBelow(x, cut), OneAt(x, cut))
    ELSE ClearBelow(x, cut)

\* x0 rounded to a significand of MantBits bits, ties to even.
RoundDouble(x0) ==
    CHOOSE r \in { IF cut <= 0 THEN x ELSE RoundAt(x, cut) :
                   x \in {x0}, cut \in {TopBit(x0) - (MantBits - 1)} } : TRUE

\* Python's a + b.
FloatAdd(a, b) == RoundDouble(ExactAdd(a, b))

\* Python's min(a0, b0): a0 unless b0 < a0.
Min(a0, b0) ==
    CHOOSE r \in {IF Less(b, a) THEN b ELSE a : a \in {a0}, b \in {b0}} : TRUE

RECURSIVE MulDigits(_, _, _, _, _)
MulDigits(x, m, i, c, acc) ==
    IF i = 0 THEN acc
    ELSE CHOOSE r \in {MulDigits(x, m, i - 1, p \div 16, <<p % 16>> \o acc) :
                          p \in {x[i] * m + c}} : TRUE

\* x0 * m in exact arithmetic, m a small natural number.
Times(x0, m) == CHOOSE r \in {MulDigits(x, m, Len(x), 0, <<>>) : x \in {x0}} : TRUE

RECURSIVE ToInt(_)
ToInt(ds) == IF ds = <<>> THEN 0 ELSE 16 * ToInt(SubSeq(ds, 1, Len(ds) - 1)) + ds[Len(ds)]

\* f"{x:.2f}": x in hundredths, correctly rounded, ties to even.
Fmt2(x) ==
    CHOOSE r \in
        { IF Less([i \in 1..FracDigits |-> IF i = 1 THEN 8 ELSE 0], fr)
             \/ (fr = [i \in 1..FracDigits |-> IF i = 1 THEN 8 ELSE 0] /\ ip % 2 = 1)
          THEN ip + 1 ELSE ip :
          ip \in {ToInt(SubSeq(Times(x, 100), 1, IntDigits))},
          fr \in {SubSeq(Times(x, 100), IntDigits + 1, NumLen)} } : TRUE

----------------------------------------------------------------------------
(* Inputs: the constructor's arguments and the instrument behind the link *)

MaxBusy == 2

\* 0.1 and 0.8 as binary64: 0x1.999999999999ap-4 and 0x1.999999999999ap-1.
Tenth == Num(0, <<1, 9, 9, 9, 9, 9, 9, 9, 9, 9, 9, 9, 9, 10>>)

EightTenths == Num(0, <<12, 12, 12, 12, 12, 12, 12, 12, 12, 12, 12, 12, 13, 0>>)

HalfFrac == <<8, 0, 0, 0, 0, 0, 0, 0, 0, 0, 0, 0, 0, 0>>

Half == Num(0, HalfFrac)

Range(a, b, s) == [start |-> a, stop |-> b, step |-> s]

\* (start_wavelength, stop_wavelength, step_size), step_size > 0.
Ranges ==
    { Range(Whole(1525), Whole(1625), Whole(5)),
      Range(Whole(1525), Whole(1540), Whole(7)),
      Range(Whole(1525), Whole(1530), Whole(5)),
      Range(Whole(1525), Whole(1528), Whole(5)),
      Range(Whole(1525), Whole(1525), Whole(5)),
      Range(Whole(1540), Whole(1525), Whole(5)),
      Range(Whole(1525), Num(1526, HalfFrac), Half),
      Range(Whole(0), EightTenths, Tenth) }

\* resolution_nm in hundredths of a nanometre; 30 (0.3 nm) is not supported.
Resolutions == {5, 30}

\* setup_osa's resolution_map.
resolution_map ==
    [r \in {5, 10, 20, 50, 100, 200, 500} |->
        CASE r = 5 -> "RESLN0.05"
          [] r = 10 -> "RESLN0.10"
          [] r = 20 -> "RESLN0.20"
          [] r = 50 -> "RESLN0.50"
          [] r = 100 -> "RESLN1.00"
          [] r = 200 -> "RESLN2.00"
          [] r = 500 -> "RESLN5.00"]

\* What the instrument answers to WDAT for the window it was given:
\* "two" and "three" are increasing runs from the left to the right boundary,
\* "open" leaves the right boundary out, "dup" repeats it.
Shapes == {"two", "three", "open", "dup"}

\* Whether every level token of the instrument parses as a float.
LevelKinds == {"numeric", "nonnumeric"}

\* The values the sweep-status register shows while a sweep is in progress.
BusyVals == {1, 0 - 1}

\* The answers to ACTV?.
ActvVals == {0 - 1, 0, 2, 3}

VARIABLES
    cfg,              \* the controller's fields set by __init__
    link,             \* the instrument's trace format
    pc,               \* the statement of the run about to execute
    failed,           \* the exception that ended the run, "none" while running
    setupCmds,        \* what setup_osa has sent over the link
    segCmds,          \* what the current loop iteration has sent over the link
    inst,             \* the instrument's sweep window (hundredths of a nm)
    sweep,            \* the status register's script for the triggered sweep
    polls,            \* SWEEP? queries of the current start_sweep_and_wait
    trace,            \* get_trace_data's trace letter
    current_start,
    current_stop,
    wl,
    lv,
    all_wavelengths,
    all_levels,
    windows,          \* the (start, stop) pairs passed to set_wavelength_range
    trims,            \* per finished iteration, whether it dropped the last point
    fetchOk,          \* every WDAT answer so far ran from boundary to boundary
    csv,              \* osa_trace.csv exists (whole or not)
    png,              \* osa_plot.png exists (whole or not)
    log               \* lines this run has appended to osa_run.log

vars ==
    <<cfg, link, pc, failed, setupCmds, segCmds, inst, sweep, polls, trace,
      current_start, current_stop, wl, lv, all_wavelengths, all_levels,
      windows, trims, fetchOk, csv, png, log>>

NoSweep == [busy |-> 0, val |-> 0, stuck |-> FALSE]

Init ==
    /\ cfg \in [range : Ranges, resolution_nm : Resolutions, use_auto_reference : BOOLEAN]
    /\ link \in [shape : Shapes, levels : LevelKinds]
    /\ pc = "idn_write"
    /\ failed = "none"
    /\ setupCmds = <<>>
    /\ segCmds = <<>>
    /\ inst = [stawl |-> 0, stpwl |-> 0]
    /\ sweep = NoSweep
    /\ polls = 0
    /\ trace = ""
    /\ current_start = Whole(0)
    /\ current_stop = Whole(0)
    /\ wl = <<>>
    /\ lv = <<>>
    /\ all_wavelengths = <<>>
    /\ all_levels = <<>>
    /\ windows = <<>>
    /\ trims = <<>>
    /\ fetchOk = TRUE
    /\ csv = FALSE
    /\ png = FALSE
    /\ log = 0

Running == failed = "none"

start_wavelength == cfg.range.start

stop_wavelength == cfg.range.stop

step_size == cfg.range.step

----------------------------------------------------------------------------
(* setup_osa *)

\* The plain writes and reads of setup_osa: what each sends and what follows.
SetupTable ==
    [ idn_write   |-> [cmd |-> "*IDN?", next |-> "idn_read"],
      idn_read    |-> [cmd |-> "read_raw", next |-> "sensitivity"],
      sensitivity |-> [cmd |-> "SNAT", next |-> "resolution"],
      avcnt       |-> [cmd |-> "AVCNT 5", next |-> "lscl"],
      lscl        |-> [cmd |-> "LSCL 0", next |-> "lsunt"],
      lsunt       |-> [cmd |-> "LSUNT 2", next |-> "reference"],
      acttrc      |-> [cmd |-> "ACTTRC A", next |-> "setup_log"] ]

SetupIO ==
    /\ Running
    /\ pc \in DOMAIN SetupTable
    /\ setupCmds' = Append(setupCmds, SetupTable[pc].cmd)
    /\ pc' = SetupTable[pc].next
    /\ UNCHANGED <<cfg, link, failed, segCmds, inst, sweep, polls, trace,
                   current_start, current_stop, wl, lv, all_wavelengths,
                   all_levels, windows, trims, fetchOk, csv, png, log>>

\* cmd = resolution_map.get(self.resolution_nm); if cmd: query RESLN?
SetupResolution ==
    /\ Running
    /\ pc = "resolution"
    /\ cfg.resolution_nm \in DOMAIN resolution_map
    /\ setupCmds' = Append(setupCmds, "RESLN?")
    /\ pc' = "resln_write"
    /\ UNCHANGED <<cfg, link, failed, segCmds, inst, sweep, polls, trace,
                   current_start, current_stop, wl, lv, all_wavelengths,
                   all_levels, windows, trims, fetchOk, csv, png, log>>

\* Mutant: the else branch reports the resolution and goes on.
SetupUnsupportedSwallowed ==
    /\ Running
    /\ pc = "resolution"
    /\ cfg.resolution_nm \notin DOMAIN resolution_map
    /\ pc' = "avcnt"
    /\ UNCHANGED <<cfg, link, failed, setupCmds, segCmds, inst, sweep, polls,
                   trace, current_start, current_stop, wl, lv, all_wavelengths,
                   all_levels, windows, trims, fetchOk, csv, png, log>>

\* else: raise ValueError, which the except clause for VisaIOError lets pass.
SetupUnsupported ==
    /\ Running
    /\ pc = "resolution"
    /\ cfg.resolution_nm \notin DOMAIN resolution_map
    /\ failed' = "ValueError"
    /\ UNCHANGED <<cfg, link, pc, setupCmds, segCmds, inst, sweep, polls, trace,
                   current_start, current_stop, wl, lv, all_wavelengths,
                   all_levels, windows, trims, fetchOk, csv, png, log>>

SetupReslnWrite ==
    /\ Running
    /\ pc = "resln_write"
    /\ setupCmds' = Append(setupCmds, resolution_map[cfg.resolution_nm])
    /\ pc' = "avcnt"
    /\ UNCHANGED <<cfg, link, failed, segCmds, inst, sweep, polls, trace,
                   current_start, current_stop, wl, lv, all_wavelengths,
                   all_levels, windows, trims, fetchOk, csv, png, log>>

SetupReference ==
    /\ Running
    /\ pc = "reference"
    /\ setupCmds' = Append(setupCmds,
                           IF cfg.use_auto_reference THEN "REFLA" ELSE "REFLU12.00")
    /\ pc' = "acttrc"
    /\ UNCHANGED <<cfg, link, failed, segCmds, inst, sweep, polls, trace,
                   current_start, current_stop, wl, lv, all_wavelengths,
                   all_levels, windows, trims, fetchOk, csv, png, log>>

\* The self.log calls that end setup_osa.
SetupLogLines == 5

\* One self.log call of setup_osa (log counts the lines this run has appended);
\* after the last one __main__ goes on to run_scan_loop.
SetupLog ==
    /\ Running
    /\ pc = "setup_log"
    /\ log < SetupLogLines
    /\ log' = log + 1
    /\ pc' = (IF log + 1 = SetupLogLines THEN "scan_begin" ELSE pc)
    /\ UNCHANGED <<cfg, link, failed, setupCmds, segCmds, inst, sweep, polls,
                   trace, current_start, current_stop, wl, lv, all_wavelengths,
                   all_levels, windows, trims, fetchOk, csv, png>>

\* Everything setup_osa sends when it runs to its end.
ConfigCommands ==
    <<"*IDN?", "read_raw", "SNAT", "RESLN?", resolution_map[cfg.resolution_nm],
      "AVCNT 5", "LSCL 0", "LSUNT 2",
      IF cfg.use_auto_reference THEN "REFLA" ELSE "REFLU12.00", "ACTTRC A">>

----------------------------------------------------------------------------
(* run_scan_loop, set_wavelength_range, start_sweep_and_wait, get_trace_data *)

ScanBegin ==
    /\ Running
    /\ pc = "scan_begin"
    /\ current_start' = start_wavelength
    /\ all_wavelengths' = <<>>
    /\ all_levels' = <<>>
    /\ log' = log + 1
    /\ pc' = "while"
    /\ UNCHANGED <<cfg, link, failed, setupCmds, segCmds, inst, sweep, polls,
                   trace, current_stop, wl, lv, windows, trims, fetchOk, csv, png>>

\* Mutant: the window's end is not clipped to stop_wavelength.
CurrentStopUnclipped(cs) == FloatAdd(cs, step_size)

\* min(current_start + self.step_size, self.stop_wavelength)
CurrentStop(cs) == Min(FloatAdd(cs, step_size), stop_wavelength)

\* Mutant: while current_start <= self.stop_wavelength
LoopTestInclusive(cs) == Leq(cs, stop_wavelength)

\* while current_start < self.stop_wavelength
LoopTest(cs) == Less(cs, stop_wavelength)

WhileEnter ==
    /\ Running
    /\ pc = "while"
    /\ LoopTest(current_start)
    /\ current_stop' = CurrentStop(current_start)
    /\ pc' = "stawl"
    /\ UNCHANGED <<cfg, link, failed, setupCmds, segCmds, inst, sweep, polls,
                   trace, current_start, wl, lv, all_wavelengths, all_levels,
                   windows, trims, fetchOk, csv, png, log>>

\* The loop ends: log, return; __main__ passes the result to save_trace.
WhileExit ==
    /\ Running
    /\ pc = "while"
    /\ ~LoopTest(current_start)
    /\ log' = log + 1
    /\ pc' = "save_csv"
    /\ UNCHANGED <<cfg, link, failed, setupCmds, segCmds, inst, sweep, polls,
                   trace, current_start, current_stop, wl, lv, all_wavelengths,
                   all_levels, windows, trims, fetchOk, csv, png>>

\* set_wavelength_range(current_start, current_stop): write STAWL{start:.2f}
Stawl ==
    /\ Running
    /\ pc = "stawl"
    /\ windows' = Append(windows, <<current_start, current_stop>>)
    /\ inst' = [inst EXCEPT !.stawl = Fmt2(current_start)]
    /\ segCmds' = Append(segCmds, "STAWL")
    /\ pc' = "stpwl"
    /\ UNCHANGED <<cfg, link, failed, setupCmds, sweep, polls, trace,
                   current_start, current_stop, wl, lv, all_wavelengths,
                   all_levels, trims, fetchOk, csv, png, log>>

\* Mutant: the loop body goes from the window straight to the fetch.
StpwlThenFetch ==
    /\ Running
    /\ pc = "stpwl"
    /\ inst' = [inst EXCEPT !.stpwl = Fmt2(current_stop)]
    /\ segCmds' = Append(segCmds, "STPWL")
    /\ pc' = "actv"
    /\ UNCHANGED <<cfg, link, failed, setupCmds, sweep, polls, trace,
                   current_start, current_stop, wl, lv, all_wavelengths,
                   all_levels, windows, trims, fetchOk, csv, png, log>>

\* write STPWL{stop:.2f}
Stpwl ==
    /\ Running
    /\ pc = "stpwl"
    /\ inst' = [inst EXCEPT !.stpwl = Fmt2(current_stop)]
    /\ segCmds' = Append(segCmds, "STPWL")
    /\ pc' = "sgl"
    /\ UNCHANGED <<cfg, link, failed, setupCmds, sweep, polls, trace,
                   current_start, current_stop, wl, lv, all_wavelengths,
                   all_levels, windows, trims, fetchOk, csv, png, log>>

\* start_sweep_and_wait: write SGL.  The instrument starts a sweep: its status
\* register will show val on the next busy queries (on all of them if stuck)
\* and 0 afterwards.
Sgl ==
    /\ Running
    /\ pc = "sgl"
    /\ \E b \in 0..MaxBusy, v \in BusyVals, st \in BOOLEAN :
          sweep' = [busy |-> b, val |-> v, stuck |-> st]
    /\ polls' = 0
    /\ segCmds' = Append(segCmds, "SGL")
    /\ pc' = "poll"
    /\ UNCHANGED <<cfg, link, failed, setupCmds, inst, trace, current_start,
                   current_stop, wl, lv, all_wavelengths, all_levels, windows,
                   trims, fetchOk, csv, png, log>>

\* The status register's answer to the query after n earlier ones.
Reading(sw, n) == IF sw.stuck \/ n < sw.busy THEN sw.val ELSE 0

\* Mutant: while int(self.osa.query("SWEEP?")) != 0
StillSweepingNonzero(reading) == reading # 0

\* Mutant: while int(self.osa.query("SWEEP?")) >= 0
StillSweepingInclusive(reading) == reading >= 0

\* while int(self.osa.query("SWEEP?")) > 0
StillSweeping(reading) == reading > 0

\* One SWEEP? query and the loop test on its answer.  The tally of queries
\* (and their record in segCmds) stops growing at MaxBusy + 1, which only a
\* sweep that never ends exceeds.
Poll ==
    /\ Running
    /\ pc = "poll"
    /\ IF polls <= MaxBusy
       THEN polls' = polls + 1 /\ segCmds' = Append(segCmds, "SWEEP?")
       ELSE UNCHANGED <<polls, segCmds>>
    /\ pc' = IF StillSweeping(Reading(sweep, polls)) THEN "poll" ELSE "actv"
    /\ UNCHANGED <<cfg, link, failed, setupCmds, inst, sweep, trace,
                   current_start, current_stop, wl, lv, all_wavelengths,
                   all_levels, windows, trims, fetchOk, csv, png, log>>

\* "ABC"[trace_idx]: Python indexes from the end for a negative index.
TraceLetter(idx) == <<"A", "B", "C">>[IF idx >= 0 THEN idx + 1 ELSE idx + 4]

\* get_trace_data: query ACTV?, pick the trace letter (IndexError outside -3..2).
\* The sweep is over for the engine, whatever the instrument is doing.
Actv ==
    /\ Running
    /\ pc = "actv"
    /\ segCmds' = Append(segCmds, "ACTV?")
    /\ sweep' = NoSweep
    /\ polls' = 0
    /\ \E idx \in ActvVals :
          IF idx \in (0 - 3)..2
          THEN trace' = TraceLetter(idx) /\ pc' = "ldtdig" /\ failed' = failed
          ELSE trace' = trace /\ pc' = pc /\ failed' = "IndexError"
    /\ UNCHANGED <<cfg, link, setupCmds, inst, current_start, current_stop, wl,
                   lv, all_wavelengths, all_levels, windows, trims, fetchOk,
                   csv, png, log>>

Ldtdig ==
    /\ Running
    /\ pc = "ldtdig"
    /\ segCmds' = Append(segCmds, "LDTDIG3")
    /\ pc' = "wdat"
    /\ UNCHANGED <<cfg, link, failed, setupCmds, inst, sweep, polls, trace,
                   current_start, current_stop, wl, lv, all_wavelengths,
                   all_levels, windows, trims, fetchOk, csv, png, log>>

\* The wavelengths (hundredths of a nm) the instrument holds for window [a, b].
Points(shape, a, b) ==
    LET mid == (a + b) \div 2
        inner == a < mid /\ mid < b
    IN  CASE shape = "two" -> IF a < b THEN <<a, b>> ELSE <<a>>
          [] shape = "three" ->
                IF inner THEN <<a, mid, b>> ELSE IF a < b THEN <<a, b>> ELSE <<a>>
          [] shape = "open" -> IF inner THEN <<a, mid>> ELSE <<a>>
          [] shape = "dup" -> <<a, b, b>>

\* The level tokens of a trace of n points.
Levels(kind, n) ==
    [i \in 1..n |-> IF kind = "nonnumeric" /\ i = 1 THEN "x" ELSE "1.0"]

\* A transfer: the count field, then the data fields.
WdatResponse == LET p == Points(link.shape, inst.stawl, inst.stpwl) IN <<Len(p)>> \o p

LdatResponse ==
    LET p == Points(link.shape, inst.stawl, inst.stpwl)
    IN  <<"count">> \o Levels(link.levels, Len(p))

\* .strip().split(',')[1:]
DataFields(response) == IF response = <<>> THEN <<>> ELSE Tail(response)

\* w is strictly increasing and runs from a to b.
WellFormed(w, a, b) ==
    /\ w # <<>>
    /\ w[1] = a
    /\ w[Len(w)] = b
    /\ \A i \in 1..(Len(w) - 1) : w[i] < w[i + 1]

Wdat ==
    /\ Running
    /\ pc = "wdat"
    /\ segCmds' = Append(segCmds, "WDAT" \o trace)
    /\ wl' = DataFields(WdatResponse)
    /\ fetchOk' = (fetchOk /\ WellFormed(wl', Fmt2(current_start), Fmt2(current_stop)))
    /\ pc' = "ldat"
    /\ UNCHANGED <<cfg, link, failed, setupCmds, inst, sweep, polls, trace,
                   current_start, current_stop, lv, all_wavelengths, all_levels,
                   windows, trims, csv, png, log>>

Ldat ==
    /\ Running
    /\ pc = "ldat"
    /\ segCmds' = Append(segCmds, "LDAT" \o trace)
    /\ lv' = DataFields(LdatResponse)
    /\ trace' = ""
    /\ pc' = "accumulate"
    /\ UNCHANGED <<cfg, link, failed, setupCmds, inst, sweep, polls,
                   current_start, current_stop, wl, all_wavelengths, all_levels,
                   windows, trims, fetchOk, csv, png, log>>

\* Mutant: s[:]
DropLastKeepsAll(s) == s

\* s[:-1]
DropLast(s) == IF s = <<>> THEN <<>> ELSE SubSeq(s, 1, Len(s) - 1)

\* Mutant: if current_stop <= self.stop_wavelength
TrimTestInclusive(stop) == Leq(stop, stop_wavelength)

\* if current_stop < self.stop_wavelength
TrimTest(stop) == Less(stop, stop_wavelength)

\* The rest of the loop body: trim, accumulate, advance.
Accumulate ==
    /\ Running
    /\ pc = "accumulate"
    /\ LET trim == TrimTest(current_stop)
           w == IF trim THEN DropLast(wl) ELSE wl
           l == IF trim THEN DropLast(lv) ELSE lv
       IN  /\ wl' = w
           /\ lv' = l
           /\ all_wavelengths' = all_wavelengths \o w
           /\ all_levels' = all_levels \o l
           /\ trims' = Append(trims, trim)
    /\ current_start' = FloatAdd(current_start, step_size)
    /\ segCmds' = <<>>
    /\ pc' = "while"
    /\ UNCHANGED <<cfg, link, failed, setupCmds, inst, sweep, polls, trace,
                   current_stop, windows, fetchOk, csv, png, log>>

----------------------------------------------------------------------------
(* save_trace *)

\* open(csv_filename, 'w') and the rows written through it.
SaveCsv ==
    /\ Running
    /\ pc = "save_csv"
    /\ csv' = TRUE
    /\ pc' = "save_float"
    /\ UNCHANGED <<cfg, link, failed, setupCmds, segCmds, inst, sweep, polls,
                   trace, current_start, current_stop, wl, lv, all_wavelengths,
                   all_levels, windows, trims, fetchOk, png, log>>

\* float(token) succeeds.
Parses(token) == token # "x"

\* list(map(float, wavelengths)), list(map(float, levels)): ValueError on a
\* token that is no number.  Wavelength tokens of the model are all numbers.
SaveFloat ==
    /\ Running
    /\ pc = "save_float"
    /\ IF \A i \in 1..Len(all_levels) : Parses(all_levels[i])
       THEN pc' = "save_plot" /\ failed' = failed
       ELSE pc' = pc /\ failed' = "ValueError"
    /\ UNCHANGED <<cfg, link, setupCmds, segCmds, inst, sweep, polls, trace,
                   current_start, current_stop, wl, lv, all_wavelengths,
                   all_levels, windows, trims, fetchOk, csv, png, log>>

\* plt.savefig(png_filename)
SavePlot ==
    /\ Running
    /\ pc = "save_plot"
    /\ png' = TRUE
    /\ pc' = "save_log"
    /\ UNCHANGED <<cfg, link, failed, setupCmds, segCmds, inst, sweep, polls,
                   trace, current_start, current_stop, wl, lv, all_wavelengths,
                   all_levels, windows, trims, fetchOk, csv, log>>

SaveLog ==
    /\ Running
    /\ pc = "save_log"
    /\ log' = log + 1
    /\ pc' = "done"
    /\ UNCHANGED <<cfg, link, failed, setupCmds, segCmds, inst, sweep, polls,
                   trace, current_start, current_stop, wl, lv, all_wavelengths,
                   all_levels, windows, trims, fetchOk, csv, png>>

----------------------------------------------------------------------------
(* Failures of the collaborators *)

\* The statements that write to or query the link.
LinkPcs ==
    DOMAIN SetupTable \cup
    {"resolution", "resln_write", "reference", "stawl", "stpwl", "sgl", "poll",
     "actv", "ldtdig", "wdat", "ldat"}

\* A write or query raises pyvisa.VisaIOError (setup_osa prints and re-raises
\* it; nothing else catches it).  An unsupported resolution raises before the
\* link is used at that statement.
LinkFault ==
    /\ Running
    /\ pc \in LinkPcs
    /\ ~(pc = "resolution" /\ cfg.resolution_nm \notin DOMAIN resolution_map)
    /\ failed' = "VisaIOError"
    /\ UNCHANGED <<cfg, link, pc, setupCmds, segCmds, inst, sweep, polls, trace,
                   current_start, current_stop, wl, lv, all_wavelengths,
                   all_levels, windows, trims, fetchOk, csv, png, log>>

\* The statements that open a file: every self.log call (open of osa_run.log
\* for appending), the CSV's open and savefig.  The loop's closing log call is
\* reached only once the loop test fails.
FilePcs == {"setup_log", "scan_begin", "save_csv", "save_plot", "save_log"}

\* A file statement raises OSError; nothing catches it.  Either the open
\* fails and there is no file, or the open has created the file and a write
\* or the closing flush fails, which leaves the file behind, short or empty.
\* A log call that fails has appended no whole line.
FileFault ==
    /\ Running
    /\ pc \in FilePcs \/ (pc = "while" /\ ~LoopTest(current_start))
    /\ failed' = "OSError"
    /\ csv' \in (IF pc = "save_csv" THEN {csv, TRUE} ELSE {csv})
    /\ png' \in (IF pc = "save_plot" THEN {png, TRUE} ELSE {png})
    /\ UNCHANGED <<cfg, link, pc, setupCmds, segCmds, inst, sweep, polls, trace,
                   current_start, current_stop, wl, lv, all_wavelengths,
                   all_levels, windows, trims, fetchOk, log>>

----------------------------------------------------------------------------
(* The run: controller.setup_osa(); run_scan_loop(); save_trace(...) *)

Step ==
    \/ SetupIO
    \/ SetupResolution
    \/ SetupUnsupported
    \/ SetupReslnWrite
    \/ SetupReference
    \/ SetupLog
    \/ ScanBegin
    \/ WhileEnter
    \/ WhileExit
    \/ Stawl
    \/ Stpwl
    \/ Sgl
    \/ Poll
    \/ Actv
    \/ Ldtdig
    \/ Wdat
    \/ Ldat
    \/ Accumulate
    \/ SaveCsv
    \/ SaveFloat
    \/ SavePlot
    \/ SaveLog

Next == Step \/ LinkFault \/ FileFault

Spec == Init /\ [][Next]_vars

\* The ranges of the termination check: several segments, none, and the
\* fractional step.
LiveRanges ==
    { Range(Whole(1525), Whole(1540), Whole(7)),
      Range(Whole(1525), Whole(1525), Whole(5)),
      Range(Whole(0), EightTenths, Tenth) }

LiveInit == Init /\ cfg.range \in LiveRanges /\ link.shape = "two"

\* The program is one thread that always takes its next step.
LiveSpec == LiveInit /\ [][Next]_vars /\ WF_vars(Step)

----------------------------------------------------------------------------
(* Properties *)

\* run_scan_loop has returned (its result is all_wavelengths, all_levels).
Returned == pc \in {"save_csv", "save_float", "save_plot", "save_log", "done"}

ValidRange == Less(start_wavelength, stop_wavelength)

\* The windows so far tile from start on, and end at stop once the loop is over.
Tiles ==
    /\ windows # <<>> => windows[1][1] = start_wavelength
    /\ \A i \in 1..(Len(windows) - 1) : windows[i + 1][1] = windows[i][2]
    /\ \A i \in 1..Len(windows) : Less(windows[i][1], windows[i][2])
    /\ Returned =>
          /\ windows # <<>>
          /\ windows[Len(windows)][2] = stop_wavelength

\* C1 as claimed: for start < stop the windows passed to set_wavelength_range
\* tile [start, stop] and no window is wider than step_size.
CoverageAsClaimed ==
    ValidRange =>
        /\ Tiles
        /\ \A i \in 1..Len(windows) :
              Leq(windows[i][2], ExactAdd(windows[i][1], step_size))

\* C1, amended: for start < stop the windows passed to set_wavelength_range
\* tile [start, stop], and no window ends beyond the floating-point sum of its
\* start and step_size: a window is wider than step_size by at most the
\* rounding error of that one addition.
Coverage ==
    ValidRange =>
        /\ Tiles
        /\ \A i \in 1..Len(windows) :
              Leq(windows[i][2], FloatAdd(windows[i][1], step_size))

\* A finished run over 0 .. 0.8 in steps of 0.1, whose third window
\* [0.2, 0.30000000000000004] is wider than 0.1.
CoverageWitness ==
    /\ Returned
    /\ step_size = Tenth
    /\ Len(windows) > 2
    /\ Less(ExactAdd(windows[3][1], step_size), windows[3][2])

\* The number of TRUE entries of a sequence of booleans.
RECURSIVE CountTrue(_)
CountTrue(bs) ==
    IF bs = <<>> THEN 0 ELSE (IF Head(bs) THEN 1 ELSE 0) + CountTrue(Tail(bs))

\* C2: every iteration but the final one drops its last fetched point and
\* the final one never does: k iterations make k - 1 trims; a step_size of at
\* least stop - start gives one segment and no trim; 1525..1625 by 5 trims the
\* first 19 of 20 segments, 1525..1540 by 7 only the first two of three.
TrimRule ==
    /\ Len(trims) <= Len(windows)
    /\ \A i \in 1..Len(trims) : trims[i] = Less(windows[i][2], stop_wavelength)
    /\ Returned =>
          /\ Len(trims) = Len(windows)
          /\ \A i \in 1..Len(trims) : trims[i] = (i < Len(trims))
          /\ trims # <<>> => CountTrue(trims) = Len(trims) - 1
          /\ (ValidRange /\ Leq(stop_wavelength, ExactAdd(start_wavelength, step_size)))
                => trims = <<FALSE>>
          /\ cfg.range = Range(Whole(1525), Whole(1625), Whole(5))
                => Len(trims) = 20 /\ CountTrue(trims) = 19 /\ ~trims[20]
          /\ cfg.range = Range(Whole(1525), Whole(1540), Whole(7))
                => trims = <<TRUE, TRUE, FALSE>>

TrimRuleWitness ==
    /\ Returned
    /\ cfg.range = Range(Whole(1525), Whole(1625), Whole(5))
    /\ Len(trims) = 20

\* How often v occurs in the sequence s.
RECURSIVE Occurrences(_, _)
Occurrences(s, v) ==
    IF s = <<>> THEN 0 ELSE (IF Head(s) = v THEN 1 ELSE 0) + Occurrences(Tail(s), v)

\* C3: if every fetch returned strictly increasing wavelengths running from
\* its window's left boundary to its right boundary, the returned wavelengths
\* are strictly increasing, run from start to stop, and hold each seam once.
NoDuplicateSeams ==
    (Returned /\ ValidRange /\ fetchOk) =>
        /\ all_wavelengths # <<>>
        /\ \A i \in 1..(Len(all_wavelengths) - 1) :
              all_wavelengths[i] < all_wavelengths[i + 1]
        /\ all_wavelengths[1] = Fmt2(start_wavelength)
        /\ all_wavelengths[Len(all_wavelengths)] = Fmt2(stop_wavelength)
        /\ \A i \in 1..(Len(windows) - 1) :
              Occurrences(all_wavelengths, Fmt2(windows[i][2])) = 1

NoDuplicateSeamsWitness ==
    /\ Returned
    /\ fetchOk
    /\ link.shape = "three"
    /\ Len(windows) = 3
    /\ Len(all_wavelengths) = 7

\* The least k with start + k * step_size >= stop, in exact arithmetic:
\* ceil((stop - start) / step_size).
RECURSIVE StepsFrom(_, _)
StepsFrom(acc, k) ==
    IF Leq(stop_wavelength, acc) THEN k ELSE StepsFrom(ExactAdd(acc, step_size), k + 1)

CeilSegments == StepsFrom(start_wavelength, 0)

\* C4: for start < stop the loop runs ceil((stop - start) / step_size) times;
\* 20 times for (1525, 1625, 5), and over [1525,1532], [1532,1539],
\* [1539,1540] for (1525, 1540, 7).
SegmentCount ==
    (Returned /\ ValidRange) =>
        /\ Len(windows) = CeilSegments
        /\ cfg.range = Range(Whole(1525), Whole(1625), Whole(5)) => Len(windows) = 20
        /\ cfg.range = Range(Whole(1525), Whole(1540), Whole(7)) =>
              windows = << <<Whole(1525), Whole(1532)>>,
                           <<Whole(1532), Whole(1539)>>,
                           <<Whole(1539), Whole(1540)>> >>

\* C5: with start >= stop the loop body never runs: no window, trigger,
\* status or fetch command is sent, the degenerate range is not an error
\* (run_scan_loop has no failing step of its own: it logs, leaves the loop at
\* the first test and returns; only a failing log file can end it otherwise),
\* and both returned sequences are empty.
DegenerateRange ==
    ~ValidRange =>
        /\ windows = <<>>
        /\ segCmds = <<>>
        /\ trims = <<>>
        /\ inst = [stawl |-> 0, stpwl |-> 0]
        /\ pc \in {"scan_begin", "while"} => failed \in {"none", "OSError"}
        /\ (Running /\ pc = "scan_begin") => ENABLED ScanBegin
        /\ (Running /\ pc = "while") => (ENABLED WhileExit /\ ~ENABLED WhileEnter)
        /\ pc \in DOMAIN SetupTable \cup
                  {"resolution", "resln_write", "reference", "setup_log",
                   "scan_begin", "while"} \/ Returned
        /\ Returned => all_wavelengths = <<>> /\ all_levels = <<>>

DegenerateRangeWitness ==
    /\ ~ValidRange
    /\ Returned
    /\ start_wavelength = stop_wavelength

\* C6: with a resolution outside the supported set, setup_osa ends in an
\* error that reaches the caller, before any sweep command is sent.
UnsupportedResolution ==
    cfg.resolution_nm \notin DOMAIN resolution_map =>
        /\ pc \in {"idn_write", "idn_read", "sensitivity", "resolution"}
        /\ pc = "resolution" => failed \in {"none", "ValueError"}
        /\ (pc = "resolution" /\ Running) => (ENABLED SetupUnsupported /\ ~ENABLED SetupResolution)
        /\ windows = <<>>
        /\ segCmds = <<>>
        /\ inst = [stawl |-> 0, stpwl |-> 0]
        /\ \A i \in 1..Len(setupCmds) :
              setupCmds[i] \notin {"STAWL", "STPWL", "SGL", "SWEEP?", "ACTV?", "LDTDIG3"}

UnsupportedResolutionWitness ==
    /\ cfg.resolution_nm \notin DOMAIN resolution_map
    /\ failed = "ValueError"
    /\ setupCmds = <<"*IDN?", "read_raw", "SNAT">>

\* C7 as claimed: a status register that reads nonzero N times and then zero
\* is queried exactly N + 1 times before the fetch.
PollCountAsClaimed ==
    (Running /\ pc = "actv" /\ ~sweep.stuck) =>
        /\ polls = sweep.busy + 1
        /\ Occurrences(segCmds, "SWEEP?") = sweep.busy + 1

\* C7, amended: a status register that reads a positive value N times and
\* then zero is queried exactly N + 1 times before the fetch; polling goes on
\* after every positive reading and stops at the first reading that is not
\* positive, be it zero or negative.
PollCount ==
    /\ (Running /\ pc = "actv" /\ ~sweep.stuck) =>
          /\ polls = (IF sweep.val > 0 THEN sweep.busy + 1 ELSE 1)
          /\ Occurrences(segCmds, "SWEEP?") = polls
    /\ (Running /\ pc = "poll" /\ ~sweep.stuck /\ sweep.val > 0) => polls <= sweep.busy
    /\ pc \in {"ldtdig", "wdat", "ldat", "accumulate"} =>
          /\ Occurrences(segCmds, "SWEEP?") >= 1
          /\ segCmds[3 + Occurrences(segCmds, "SWEEP?") + 1] = "ACTV?"

PollCountWitness ==
    /\ Running
    /\ pc = "actv"
    /\ ~sweep.stuck
    /\ sweep.val > 0
    /\ sweep.busy = 2
    /\ polls = 3

\* C8: a run that fails has persisted neither the trace CSV nor the plot.
NoPersistenceOnFailure == ~Running => (~csv /\ ~png)

\* The statements of setup_osa that use the link.
SetupPcs == DOMAIN SetupTable \cup {"resolution", "resln_write", "reference"}

\* What one loop iteration sends: the window, the trigger, m status queries,
\* and the fetch from trace t.
SegmentCommands(m, t) ==
    <<"STAWL", "STPWL", "SGL">> \o [i \in 1..m |-> "SWEEP?"]
        \o <<"ACTV?", "LDTDIG3", "WDAT" \o t, "LDAT" \o t>>

IsPrefix(s, t) == Len(s) <= Len(t) /\ \A i \in 1..Len(s) : s[i] = t[i]

\* The current iteration has sent a whole set-window, trigger, poll, fetch cycle.
CycleComplete ==
    \E m \in 1..(MaxBusy + 1), t \in {"A", "B", "C"} : segCmds = SegmentCommands(m, t)

SequencingInv ==
    /\ pc \notin SetupPcs => setupCmds = ConfigCommands
    /\ pc \in SetupPcs \cup {"setup_log", "scan_begin"} =>
          (segCmds = <<>> /\ windows = <<>> /\ trims = <<>>)
    /\ \E m \in 1..(MaxBusy + 1), t \in {"A", "B", "C"} :
          IsPrefix(segCmds, SegmentCommands(m, t))
    /\ pc = "accumulate" => CycleComplete
    /\ segCmds # <<>> => Len(windows) = Len(trims) + 1
    /\ segCmds = <<>> => Len(windows) = Len(trims)

SequencingStep ==
    /\ setupCmds' # setupCmds => pc \in SetupPcs
    /\ (all_wavelengths' # all_wavelengths \/ all_levels' # all_levels \/ trims' # trims) =>
          /\ pc = "accumulate"
          /\ CycleComplete
          /\ segCmds' = <<>>
          /\ all_wavelengths' =
                all_wavelengths \o (IF trims'[Len(trims')] THEN DropLast(wl) ELSE wl)
    /\ (segCmds' # segCmds /\ segCmds = <<>>) =>
          (pc = "stawl" /\ Len(trims) = Len(windows))

\* C9: every configuration command of setup_osa precedes the first sweep
\* command; each iteration sends STAWL, STPWL, SGL, its SWEEP? queries, ACTV?,
\* LDTDIG3, WDAT, LDAT in that order and only then trims and accumulates; and
\* no iteration sends anything before the previous one has accumulated.
StrictSequencing == []SequencingInv /\ [][SequencingStep]_vars

StrictSequencingWitness ==
    /\ pc = "accumulate"
    /\ Len(trims) = 2
    /\ Len(segCmds) = 10

\* The triggered sweep's status register never shows zero.
NeverZero == sweep.stuck

\* The triggered sweep's status register shows a positive value for ever.
NeverIdle == sweep.stuck /\ sweep.val > 0

====
